---- MODULE Spec2Model ----
(***************************************************************************)
(* A model of the Twig adapter for Fractal (src/src/adapter.js): the       *)
(* template loader and its include-path fix, the patched Template.render   *)
(* with its _keys regeneration, the adapter's top-level render, and the    *)
(* registry eviction driven by the library's change events.                *)
(*                                                                         *)
(* Strings are sequences of lexical atoms: "/" , "@" and "_" are atoms of  *)
(* their own, a word such as "button.twig" is one atom.  startsWith,       *)
(* split, join, Path.join and Path.relative are computed on these          *)
(* sequences.                                                              *)
(***************************************************************************)
EXTENDS Integers, Sequences, FiniteSets, TLC

VARIABLES
    location,       \* the location string handed to the loader
    out,            \* outcome of the last operation
    pristine,       \* config.pristine
    importContext,  \* config.importContext
    heap,           \* the JavaScript objects (mappings), by reference
    views,          \* the adapter's view collection (self.views)
    registry,       \* Twig.Templates.registry
    events          \* change events emitted by the library, not yet handled

vars == <<location, out, pristine, importContext, heap, views, registry, events>>

-----------------------------------------------------------------------------
(* Bounds of the model *)

MaxSegs == 5        \* segments of a generated location
MaxKeys == 2        \* entries of a generated mapping
MaxNum == 1         \* largest number stored in a generated mapping
MaxRev == 1         \* revisions of a view's content
MaxEvents == 1      \* change events waiting for delivery

-----------------------------------------------------------------------------
(* Values *)

Undefined == [t |-> "undefined"]
Str(s) == [t |-> "string", s |-> s]
Num(n) == [t |-> "number", n |-> n]
Ref(r) == [t |-> "object", ref |-> r]
List(l) == [t |-> "array", items |-> l]

IsString(x) == x.t = "string"
IsPlainObject(x) == x.t = "object"

\* JavaScript truthiness of a value
Truthy(x) ==
    CASE x.t = "undefined" -> FALSE
      [] x.t = "string" -> x.s # <<>>
      [] x.t = "number" -> x.n # 0
      [] OTHER -> TRUE

-----------------------------------------------------------------------------
(* Strings *)

StartsWith(s, p) == Len(s) >= Len(p) /\ SubSeq(s, 1, Len(p)) = p

RECURSIVE SplitFrom(_, _, _)
\* the segments of s[i..] with cur the segment being read
SplitFrom(s, i, cur) ==
    IF i > Len(s) THEN <<cur>>
    ELSE IF s[i] = "/" THEN <<cur>> \o SplitFrom(s, i + 1, <<>>)
    ELSE SplitFrom(s, i + 1, Append(cur, s[i]))

\* String.prototype.split('/')
Split(s) == SplitFrom(s, 1, <<>>)

RECURSIVE JoinSegs(_)
\* Array.prototype.join('/')
JoinSegs(segs) ==
    IF segs = <<>> THEN <<>>
    ELSE IF Len(segs) = 1 THEN segs[1]
    ELSE segs[1] \o <<"/">> \o JoinSegs(Tail(segs))

RECURSIVE NormalizeSegs(_, _, _, _)
\* normalizeString of Node's path module: "" and "." are dropped, ".." pops
NormalizeSegs(segs, i, res, allowAbove) ==
    IF i > Len(segs) THEN res
    ELSE LET s == segs[i] IN
         IF s = <<>> \/ s = <<".">> THEN NormalizeSegs(segs, i + 1, res, allowAbove)
         ELSE IF s = <<"..">> THEN
              IF res # <<>> /\ res[Len(res)] # <<"..">>
              THEN NormalizeSegs(segs, i + 1, SubSeq(res, 1, Len(res) - 1), allowAbove)
              ELSE IF allowAbove
                   THEN NormalizeSegs(segs, i + 1, Append(res, s), allowAbove)
                   ELSE NormalizeSegs(segs, i + 1, res, allowAbove)
         ELSE NormalizeSegs(segs, i + 1, Append(res, s), allowAbove)

\* Path.normalize
PathNormalize(p) ==
    IF p = <<>> THEN <<".">>
    ELSE LET isAbsolute == p[1] = "/"
             trailingSeparator == p[Len(p)] = "/"
             body == JoinSegs(NormalizeSegs(Split(p), 1, <<>>, ~isAbsolute))
             body1 == IF body = <<>> /\ ~isAbsolute THEN <<".">> ELSE body
             body2 == IF body1 # <<>> /\ trailingSeparator
                      THEN Append(body1, "/") ELSE body1
         IN  IF isAbsolute THEN <<"/">> \o body2 ELSE body2

\* Path.join(a, b): the non-empty arguments joined by "/" and normalized
PathJoin(a, b) ==
    LET joined == IF a = <<>> THEN b
                  ELSE IF b = <<>> THEN a
                  ELSE a \o <<"/">> \o b
    IN  PathNormalize(joined)

RECURSIVE CommonLen(_, _, _)
CommonLen(a, b, n) ==
    IF n < Len(a) /\ n < Len(b) /\ a[n + 1] = b[n + 1]
    THEN CommonLen(a, b, n + 1) ELSE n

\* Path.relative(from, to) for absolute paths
PathRelative(from, to) ==
    LET f == NormalizeSegs(Split(from), 1, <<>>, FALSE)
        g == NormalizeSegs(Split(to), 1, <<>>, FALSE)
        n == CommonLen(f, g, 0)
        ups == [i \in 1..(Len(f) - n) |-> <<"..">>]
    IN  JoinSegs(ups \o SubSeq(g, n + 1, Len(g)))

-----------------------------------------------------------------------------
(* The library *)

\* source.fullPath
fullPath == <<"/", "components">>

\* config.handlePrefix
handlePrefix == <<"@">>

ButtonPath == fullPath \o <<"/", "atoms", "/", "button", "/", "button.twig">>
PrimaryPath == fullPath \o <<"/", "atoms", "/", "button", "/", "button--primary.twig">>

Content(name, rev) == [t |-> "source", of |-> name, rev |-> rev]

View(handle, path, content) ==
    [t |-> "view", handle |-> handle, path |-> path, content |-> content]

\* the views of the library as loaded: handles and paths are unique
InitialViews ==
    << View(<<"@", "button">>, ButtonPath, Content("button", 0)),
       View(<<"@", "button--primary">>, PrimaryPath, Content("button--primary", 0)) >>

\* _.find(self.views, {path: p}): the first view whose path is the value p
FindByPath(vs, p) ==
    LET hits == {i \in 1..Len(vs) : Str(vs[i].path) = p}
    IN  IF hits = {} THEN Undefined
        ELSE vs[CHOOSE i \in hits : \A j \in hits : i <= j]

isHandle(str) == str # <<>> /\ StartsWith(str, handlePrefix)

\* a lookup that ignores the handle and answers with the first view
getViewFirst(vs, handle) == IF vs = <<>> THEN Undefined ELSE vs[1]

\* Adapter.getView(handle): the view registered under the handle
getView(vs, handle) ==
    LET hits == {i \in 1..Len(vs) : vs[i].handle = handle}
    IN  IF hits = {} THEN Undefined
        ELSE vs[CHOOSE i \in hits : \A j \in hits : i <= j]

-----------------------------------------------------------------------------
(* fixIncludePath *)

firstLevelFolderNames == {<<"atoms">>, <<"molecules">>, <<"organisms">>}

RECURSIVE ScanChunksForward(_, _)
\* a scan that starts at the front and stops at the leftmost folder name
ScanChunksForward(locationPathChunks, i) ==
    LET n == Len(locationPathChunks)
        j == n + 1 - i
    IN  IF i < 1 THEN Undefined
        ELSE IF locationPathChunks[j] \in firstLevelFolderNames
             THEN Str(PathJoin(fullPath, JoinSegs(SubSeq(locationPathChunks, j, n))))
             ELSE ScanChunksForward(locationPathChunks, i - 1)

RECURSIVE ScanChunks(_, _)
\* the for loop: from index i down to the first chunk that is a folder name
ScanChunks(locationPathChunks, i) ==
    IF i < 1 THEN Undefined
    ELSE IF locationPathChunks[i] \in firstLevelFolderNames
         THEN LET newLocationChunks ==
                      SubSeq(locationPathChunks, i, Len(locationPathChunks))
              IN  Str(PathJoin(fullPath, JoinSegs(newLocationChunks)))
         ELSE ScanChunks(locationPathChunks, i - 1)

\* a resolver that raises an error of its own when no chunk is a folder name
fixIncludePathThrowing(loc) ==
    LET r == ScanChunks(Split(loc), Len(Split(loc)))
    IN  IF r = Undefined
        THEN [t |-> "throw", kind |-> "ResolutionFailure", hint |-> "none", of |-> loc]
        ELSE r

fixIncludePath(loc) ==
    LET locationPathChunks == Split(loc)
    IN  ScanChunks(locationPathChunks, Len(locationPathChunks))

-----------------------------------------------------------------------------
(* The loader registered under 'fractal' *)

NotFound(loc) == [t |-> "throw", kind |-> "NotFound", hint |-> "leading slash", of |-> loc]

Template(id, data) == [t |-> "template", id |-> id, data |-> data]

Loader(vs, loc, pre) ==
    IF Truthy(pre) THEN Template(loc, pre)
    ELSE LET componentPath == IF StartsWith(loc, <<"/">>)
                              THEN fixIncludePath(loc)
                              ELSE Str(PathJoin(fullPath, loc))
         IN  IF componentPath.t = "throw" THEN componentPath
             ELSE LET view == IF isHandle(loc) THEN getView(vs, loc)
                              ELSE FindByPath(vs, componentPath)
                  IN  IF view = Undefined THEN NotFound(loc)
                      ELSE Template(loc, view.content)

-----------------------------------------------------------------------------
(* Mappings: JavaScript objects as ordered lists of entries, held by reference *)

Entry(k, v) == [k |-> k, v |-> v]

Has(m, k) == \E i \in 1..Len(m) : m[i].k = k

Get(m, k) ==
    IF Has(m, k) THEN m[CHOOSE i \in 1..Len(m) : m[i].k = k].v ELSE Undefined

\* m[k] = v: an existing key keeps its place, a new key goes last
Put(m, k, v) ==
    IF Has(m, k)
    THEN [m EXCEPT ![CHOOSE i \in 1..Len(m) : m[i].k = k] = Entry(k, v)]
    ELSE Append(m, Entry(k, v))

\* a literal mapping nested in a literal
Tree(entries) == [t |-> "literal", entries |-> entries]

RECURSIVE AllocFrom(_, _, _, _)
\* the objects of a literal are created in h, the literal's own object at r
AllocFrom(h, r, src, i) ==
    IF i > Len(src) THEN h
    ELSE LET e == src[i] IN
         IF e.v.t = "literal"
         THEN LET c == Len(h) + 1
                  h1 == AllocFrom(Append(h, <<>>), c, e.v.entries, 1)
              IN  AllocFrom([h1 EXCEPT ![r] = Append(@, Entry(e.k, Ref(c)))], r, src, i + 1)
         ELSE AllocFrom([h EXCEPT ![r] = Append(@, e)], r, src, i + 1)

Alloc(h, entries) ==
    [h |-> AllocFrom(Append(h, <<>>), Len(h) + 1, entries, 1), r |-> Len(h) + 1]

RECURSIVE ReadTree(_, _)
\* the mapping at r with its nested mappings written out
ReadTree(h, r) ==
    [i \in 1..Len(h[r]) |->
        IF IsPlainObject(h[r][i].v)
        THEN Entry(h[r][i].k, Tree(ReadTree(h, h[r][i].v.ref)))
        ELSE h[r][i]]

RECURSIVE Reach(_, _)
\* the objects reachable from r
Reach(h, r) ==
    {r} \cup UNION { Reach(h, h[r][i].v.ref) : i \in {j \in 1..Len(h[r]) : IsPlainObject(h[r][j].v)} }

\* a copy that is the object itself
cloneDeepAlias(h, r) == [h |-> h, r |-> r]

RECURSIVE CloneFrom(_, _, _, _)
CloneFrom(h, r, src, i) ==
    IF i > Len(src) THEN h
    ELSE LET e == src[i] IN
         IF IsPlainObject(e.v)
         THEN LET c == Len(h) + 1
                  h1 == CloneFrom(Append(h, <<>>), c, h[e.v.ref], 1)
              IN  CloneFrom([h1 EXCEPT ![r] = Append(@, Entry(e.k, Ref(c)))], r, src, i + 1)
         ELSE CloneFrom([h EXCEPT ![r] = Append(@, e)], r, src, i + 1)

\* _.cloneDeep(context)
cloneDeep(h, r) ==
    [h |-> CloneFrom(Append(h, <<>>), Len(h) + 1, h[r], 1), r |-> Len(h) + 1]

RECURSIVE MergeFrom(_, _, _, _)
\* _.mergeWith(output, item, customizer) of utils.defaultsDeep: two plain
\* mappings are merged in place, any other source value is assigned
MergeFrom(h, o, src, i) ==
    IF i > Len(src) THEN h
    ELSE LET e == src[i]
             objectValue == Get(h[o], e.k)
         IN  IF IsPlainObject(e.v) /\ IsPlainObject(objectValue)
             THEN MergeFrom(MergeFrom(h, objectValue.ref, h[e.v.ref], 1), o, src, i + 1)
             ELSE MergeFrom([h EXCEPT ![o] = Put(@, e.k, e.v)], o, src, i + 1)

\* utils.defaultsDeep(target, defaults): a new mapping that holds the defaults
\* overlaid with the target
defaultsDeep(h, target, defaults) ==
    LET o == Len(h) + 1
        h1 == MergeFrom(Append(h, <<>>), o, h[defaults], 1)
    IN  [h |-> MergeFrom(h1, o, h1[target], 1), r |-> o]

-----------------------------------------------------------------------------
(* setKeys *)

KeysKey == <<"_", "keys">>

IsPrivate(key) == StartsWith(key, <<"_">>)

\* lodash's isArrayLike: the value has a length that is a whole number >= 0
isArrayLike(obj) == Get(obj, <<"length">>).t = "number"

\* _.map(obj, (val, key) => isString(key) && !key.startsWith('_') ? key : undefined):
\* an array-like object is walked by index, and an index is no string
MapKeys(obj) ==
    IF isArrayLike(obj)
    THEN [i \in 1..Get(obj, <<"length">>).n |-> Undefined]
    ELSE [i \in 1..Len(obj) |-> IF ~IsPrivate(obj[i].k) THEN Str(obj[i].k) ELSE Undefined]

\* _.compact: the falsy items are dropped
Compact(items) == SelectSeq(items, Truthy)

\* the value assigned to obj._keys
ComputeKeys(obj) ==
    LET kept == Compact(MapKeys(obj))
    IN  List([i \in 1..Len(kept) |-> kept[i].s])

RECURSIVE setKeys(_, _)
RECURSIVE EachFrom(_, _, _)
\* _.each(obj, ...): setKeys on every plain mapping under a non-private key
EachFrom(st, r, i) ==
    IF i > Len(st.h[r]) THEN st
    ELSE LET e == st.h[r][i] IN
         IF IsPlainObject(e.v) /\ ~IsPrivate(e.k)
         THEN EachFrom(setKeys(st, e.v.ref), r, i + 1)
         ELSE EachFrom(st, r, i + 1)

\* st.h is the heap, st.seen the mappings setKeys was applied to
setKeys(st, r) ==
    LET obj == st.h[r]
        st1 == [h |-> [st.h EXCEPT ![r] = Put(obj, KeysKey, ComputeKeys(obj))],
                seen |-> st.seen \cup {r}]
    IN  IF isArrayLike(obj) THEN st1 ELSE EachFrom(st1, r, 1)

-----------------------------------------------------------------------------
(* Entities of the library: source.find *)

Json(name) == [t |-> "json", name |-> name]

Component(name, default) == [kind |-> "component", name |-> name, isVariant |-> FALSE, default |-> default]
Variant(name) == [kind |-> "variant", name |-> name, isVariant |-> TRUE, default |-> name]

\* source.find(identifier)
find(identifier) ==
    CASE identifier = <<"@", "button">> -> Component("button", "button--default")
      [] identifier = <<"@", "button--default">> -> Variant("button--default")
      [] identifier = <<"@", "button--primary">> -> Variant("button--primary")
      [] OTHER -> Undefined

\* entity.variants().default()
DefaultVariant(entity) == Variant(entity.default)

\* entity.getContext(): the context data configured for the variant
getContext(entity) ==
    IF entity.name = "button--primary"
    THEN << Entry(<<"title">>, Str(<<"Primary">>)),
            Entry(<<"opts">>, Tree(<< Entry(<<"size">>, Num(2)) >>)) >>
    ELSE << Entry(<<"title">>, Str(<<"Button">>)),
            Entry(<<"opts">>, Tree(<< Entry(<<"size">>, Num(1)) >>)) >>

\* handle.replace(new RegExp('^\\' + handlePrefix), '@')
ReplacePrefix(handle) ==
    IF StartsWith(handle, handlePrefix)
    THEN <<"@">> \o SubSeq(handle, Len(handlePrefix) + 1, Len(handle))
    ELSE handle

-----------------------------------------------------------------------------
(* The patched Twig.Template.prototype.render *)

SelfKey == <<"_", "self">>

\* the context the original render is called with: h the heap afterwards, ctx
\* the reference passed on, entity the entity found for the template
PatchedRender(h, context, id, vs, isPristine, doImport) ==
    LET untouched == [h |-> h, ctx |-> context, entity |-> Undefined] IN
    IF ~isPristine /\ id # <<>>
    THEN LET view == FindByPath(vs, Str(PathJoin(fullPath, id)))
             handle == IF isHandle(id) THEN Str(id)
                       ELSE IF view # Undefined THEN Str(view.handle)
                       ELSE Undefined
         IN  IF Truthy(handle)
             THEN LET found == find(ReplacePrefix(handle.s)) IN
                  IF found # Undefined
                  THEN LET entity == IF found.isVariant THEN found ELSE DefaultVariant(found)
                       IN  IF doImport
                           THEN LET c == cloneDeep(h, context)
                                    g == Alloc(c.h, getContext(entity))
                                    d == defaultsDeep(g.h, c.r, g.r)
                                    h1 == [d.h EXCEPT ![d.r] = Put(@, SelfKey, Json(entity.name))]
                                    k == setKeys([h |-> h1, seen |-> {}], d.r)
                                IN  [h |-> k.h, ctx |-> d.r, entity |-> entity]
                           ELSE [h |-> h, ctx |-> context, entity |-> entity]
                  ELSE untouched
             ELSE untouched
    ELSE untouched

-----------------------------------------------------------------------------
(* TwigAdapter.render *)

\* a setEnv that assigns whenever a value is supplied
setEnvOverwrite(h, key, value, context) ==
    IF value # Undefined THEN [h EXCEPT ![context] = Put(@, key, value)] ELSE h

setEnv(h, key, value, context) ==
    IF Get(h[context], key) = Undefined /\ value # Undefined
    THEN [h EXCEPT ![context] = Put(@, key, value)]
    ELSE h

\* this._app.config()
AppConfig == Json("app.config")

ReservedKeys == { <<"_", "self">>, <<"_", "target">>, <<"_", "env">>, <<"_", "config">> }

\* the value render hands to setEnv for a reserved key
Supplied(m, key) ==
    CASE key = <<"_", "self">> -> m.self
      [] key = <<"_", "target">> -> m.target
      [] key = <<"_", "env">> -> m.env
      [] OTHER -> AppConfig

\* the four setEnv calls
InjectEnv(h, context, m, isPristine) ==
    IF isPristine THEN h
    ELSE LET h1 == setEnv(h, <<"_", "self">>, m.self, context)
             h2 == setEnv(h1, <<"_", "target">>, m.target, context)
             h3 == setEnv(h2, <<"_", "env">>, m.env, context)
         IN  setEnv(h3, <<"_", "config">>, AppConfig, context)

\* name: meta.self ? handlePrefix + meta.self.handle : tplPath
TemplateName(m, path) ==
    IF Truthy(m.self) THEN handlePrefix \o <<m.self.name>>
    ELSE PathRelative(fullPath, path)

-----------------------------------------------------------------------------
(* The template registry and unCache *)

\* Twig.Templates.registry: compiled templates by id
EmptyRegistry == [k \in {} |-> Undefined]

\* Twig.Templates.registry[key] = template
Save(reg, key, template) ==
    [k \in DOMAIN reg \cup {key} |-> IF k = key THEN template ELSE reg[k]]

\* delete Twig.Templates.registry[key]
Delete(reg, key) == [k \in DOMAIN reg \ {key} |-> reg[k]]

\* a handler that drops every compiled template
unCacheAll(reg, view) == [k \in {} |-> Undefined]

\* unCache(view): view is a view object or the path of one
unCache(reg, view) ==
    LET path == PathRelative(fullPath, IF IsString(view) THEN view.s ELSE view.path)
        handle == IF IsString(view) THEN Undefined ELSE Str(view.handle)
        reg1 == IF Truthy(handle) /\ handle.s \in DOMAIN reg
                THEN Delete(reg, handle.s) ELSE reg
    IN  IF path \in DOMAIN reg1 THEN Delete(reg1, path) ELSE reg1

-----------------------------------------------------------------------------
(* Loader calls on generated locations *)

Idle == [op |-> "idle"]

\* segments a generated location is made of
SegAlphabet ==
    { <<>>, <<"..">>, <<"atoms">>, <<"organisms">>, <<"button">>,
      <<"button.twig">>, <<"button--primary.twig">> }

\* handle references
HandleLocations == { <<"@", "button">>, <<"@", "button--primary">>, <<"@", "ghost">> }

\* every string of 1..MaxSegs segments joined by "/", and the handle references
Locations ==
    { JoinSegs(segs) : segs \in UNION { [1..n -> SegAlphabet] : n \in 1..MaxSegs } }
        \cup HandleLocations

\* params.precompiled: not supplied, the empty string, or template source
Precompiled == { Undefined, Str(<<>>), Str(<<"{{ title }}">>) }

QuietRender ==
    /\ pristine = FALSE /\ importContext = FALSE
    /\ heap = <<>>

QuietCache == views = InitialViews /\ registry = EmptyRegistry /\ events = <<>>

InitLoad ==
    /\ location \in Locations
    /\ out = Idle
    /\ QuietRender /\ QuietCache

\* the loader's call self.fixIncludePath(location) on a rooted location
FixIncludePathCall ==
    /\ out.op = "idle"
    /\ StartsWith(location, <<"/">>)
    /\ out' = [op |-> "fixIncludePath", result |-> fixIncludePath(location)]
    /\ UNCHANGED <<location, pristine, importContext, heap, views, registry, events>>

\* the evaluator asks the loader for the template at location
LoaderCall ==
    /\ out.op = "idle"
    /\ \E pre \in Precompiled :
          out' = [op |-> "load", pre |-> pre, result |-> Loader(views, location, pre)]
    /\ UNCHANGED <<location, pristine, importContext, heap, views, registry, events>>

NextLoad == FixIncludePathCall \/ LoaderCall

SpecLoad == InitLoad /\ [][NextLoad]_vars

-----------------------------------------------------------------------------
(* Properties of path resolution and of the loader *)

Chunks(loc) == Split(loc)

CategoryIndexes(loc) ==
    {i \in 1..Len(Chunks(loc)) : Chunks(loc)[i] \in firstLevelFolderNames}

\* index of the rightmost segment that is a category name
Anchor(loc) ==
    CHOOSE a \in CategoryIndexes(loc) : \A b \in CategoryIndexes(loc) : b <= a

\* the location from its rightmost category segment on
AnchoredSuffix(loc) == JoinSegs(SubSeq(Chunks(loc), Anchor(loc), Len(Chunks(loc))))

\* nesting prefixes an including template's directory may put before a reference
NestingPrefixes ==
    { <<>>,
      <<"organisms">>,
      <<"button", "/", "button">>,
      <<"organisms", "/", "button", "/", "..">> }

\* C1: a rooted location with a category segment resolves to
\* join(libraryRoot, segments[a:]) with a the index of the rightmost category
\* segment, and so does every rooted location that puts another nesting
\* prefix before the same suffix.
C1_RightmostAnchor ==
    (out.op = "fixIncludePath" /\ CategoryIndexes(location) # {}) =>
        /\ out.result = Str(PathJoin(fullPath, AnchoredSuffix(location)))
        /\ \A p \in NestingPrefixes :
              fixIncludePath(<<"/">> \o p \o <<"/">> \o AnchoredSuffix(location))
                  = out.result

C1_Witness ==
    /\ out.op = "fixIncludePath"
    /\ location = <<"/", "organisms", "/", "atoms", "/", "button", "/", "button.twig">>
    /\ out.result = Str(ButtonPath)

\* C2: a rooted location with no category segment ends in an explicit
\* failure, never in an undefined path returned as a result.
C2_ExplicitFailure ==
    (out.op = "fixIncludePath" /\ CategoryIndexes(location) = {}) =>
        out.result.t = "throw"

\* whether view v is the one the location refers to, by the location's branch
ViewMatches(v, loc) ==
    IF isHandle(loc) THEN v.handle = loc
    ELSE IF StartsWith(loc, <<"/">>)
         THEN /\ CategoryIndexes(loc) # {}
              /\ v.path = PathJoin(fullPath, AnchoredSuffix(loc))
         ELSE v.path = PathJoin(fullPath, loc)

\* C3: a loader call without precompiled source for a location no view
\* matches fails with NotFound and its leading-slash hint; it returns no
\* template and fails with no other kind of error.
C3_NotFound ==
    (/\ out.op = "load"
     /\ ~Truthy(out.pre)
     /\ \A i \in 1..Len(views) : ~ViewMatches(views[i], location)) =>
        /\ out.result.t = "throw"
        /\ out.result.kind = "NotFound"
        /\ out.result.hint = "leading slash"

C3_Witness ==
    /\ out.op = "load"
    /\ out.pre = Undefined
    /\ location = <<"/", "button", "/", "button.twig">>
    /\ out.result = NotFound(location)

\* C4: loading a view by its handle, and loading it by a rooted path whose
\* resolved path is the view's path, both return exactly the view's content.
C4_HandleAndRootedAgree ==
    \A i \in 1..Len(views) :
        (/\ out.op = "load"
         /\ ~Truthy(out.pre)
         /\ \/ location = views[i].handle
            \/ /\ StartsWith(location, <<"/">>)
               /\ fixIncludePath(location) = Str(views[i].path)) =>
            out.result = Template(location, views[i].content)

C4_Witness ==
    /\ out.op = "load"
    /\ out.pre = Undefined
    /\ location = <<"/", "organisms", "/", "atoms", "/", "button", "/", "button--primary.twig">>
    /\ fixIncludePath(location) = Str(PrimaryPath)
    /\ out.result.t = "template"
    /\ out.result.data = getView(views, <<"@", "button--primary">>).content

-----------------------------------------------------------------------------
(* Generated mappings *)

Scalars == {Str(<<"x">>)} \cup {Num(n) : n \in 1..MaxNum}

\* a nested mapping has no entry or one
NestedLiterals ==
    {<<>>} \cup { <<Entry(k, v)>> :
                    k \in {<<"title">>, <<"length">>, <<"_", "priv">>}, v \in Scalars }

Values == Scalars \cup {Tree(m) : m \in NestedLiterals}

\* the mappings of at most MaxKeys entries with distinct keys among keys and
\* values among values
Literals(keys, values) ==
    UNION { { [i \in 1..n |-> Entry(ks[i], vs[i])] :
                ks \in {f \in [1..n -> keys] : \A i, j \in 1..n : f[i] = f[j] => i = j},
                vs \in [1..n -> values] } : n \in 0..MaxKeys }

-----------------------------------------------------------------------------
(* setKeys on generated mappings *)

KeysAlphabet == { <<"title">>, <<"length">>, <<>>, <<"_", "priv">>, <<"opts">> }

InitKeys ==
    /\ heap \in {Alloc(<<>>, m).h : m \in Literals(KeysAlphabet, Values)}
    /\ out = Idle
    /\ location = <<>>
    /\ pristine = FALSE /\ importContext = TRUE
    /\ QuietCache

\* setKeys(context) on the mapping at reference 1, a first and a second time
SetKeysCall ==
    /\ out.op = "idle" \/ (out.op = "setKeys" /\ out.calls < 2)
    /\ LET k == setKeys([h |-> heap, seen |-> {}], 1) IN
       /\ heap' = k.h
       /\ out' = [op |-> "setKeys",
                  calls |-> IF out.op = "idle" THEN 1 ELSE out.calls + 1,
                  first |-> IF out.op = "idle" THEN heap ELSE out.first,
                  prev |-> heap,
                  prevSeen |-> IF out.op = "idle" THEN {} ELSE out.seen,
                  seen |-> k.seen]
    /\ UNCHANGED <<location, pristine, importContext, views, registry, events>>

NextKeys == SetKeysCall

SpecKeys == InitKeys /\ [][NextKeys]_vars

-----------------------------------------------------------------------------
(* Renders on generated contexts *)

RenderAlphabet == { <<"title">>, <<"opts">>, <<"_", "self">>, <<"_", "target">> }

\* the values of a generated context: a string, or a nested mapping
RenderValues ==
    {Str(<<"x">>)} \cup
    { Tree(m) : m \in {<<>>, <<Entry(<<"title">>, Str(<<"x">>))>>,
                             <<Entry(<<"_", "priv">>, Str(<<"x">>))>>} }

\* the identity (this.id) of a template instance
TemplateIds ==
    { <<>>,
      <<"@", "button">>, <<"@", "button--primary">>, <<"@", "ghost">>,
      <<"atoms", "/", "button", "/", "button.twig">>,
      <<"atoms", "/", "button", "/", "button--primary.twig">>,
      <<"/", "atoms", "/", "button", "/", "button.twig">>,
      <<"/", "organisms", "/", "atoms", "/", "button", "/", "button.twig">>,
      <<"button", "/", "button.twig">> }

\* meta || {}: each of self, target and env supplied or not
Metas ==
    [ self : {Undefined, Json("button--primary")},
      target : {Undefined, Str(<<"preview">>)},
      env : {Undefined, Json("env")} ]

NoMeta == [self |-> Undefined, target |-> Undefined, env |-> Undefined]

InitRender ==
    /\ heap \in {Alloc(<<>>, m).h : m \in Literals(RenderAlphabet, RenderValues)}
    /\ pristine \in BOOLEAN
    /\ importContext \in BOOLEAN
    /\ out = Idle
    /\ location = <<>>
    /\ QuietCache

\* what a render call did: given the caller's context at the call, entry the
\* context at the entry of the patched render, passed the context handed to
\* the original render
RenderOut(op, id, m, given, entry, r, settled) ==
    [op |-> op, id |-> id, meta |-> m, given |-> given, entry |-> entry,
     passed |-> ReadTree(r.h, r.ctx),
     same |-> r.ctx = 1,
     shared |-> Reach(r.h, r.ctx) \cap Reach(r.h, 1),
     entity |-> IF r.entity = Undefined THEN "none" ELSE r.entity.name,
     settled |-> settled]

\* the evaluator renders an included template instance with the caller's context
TemplateRender ==
    /\ out.op = "idle"
    /\ \E id \in TemplateIds :
         LET r == PatchedRender(heap, 1, id, views, pristine, importContext) IN
         /\ heap' = r.h
         /\ out' = RenderOut("templateRender", id, NoMeta, ReadTree(heap, 1),
                             ReadTree(heap, 1), r, "returned")
    /\ UNCHANGED <<location, pristine, importContext, views, registry, events>>

\* adapter.render(path, str, context, meta)
AdapterRender ==
    /\ out.op = "idle"
    /\ \E m \in Metas, str \in {Str(<<>>), Str(<<"{{ title }}">>)},
          path \in {ButtonPath, fullPath \o <<"/", "ghost.twig">>} :
         LET h1 == InjectEnv(heap, 1, m, pristine)
             name == TemplateName(m, path)
             template == Loader(views, name, str)
             r == IF template.t = "template"
                  THEN PatchedRender(h1, 1, template.id, views, pristine, importContext)
                  ELSE [h |-> h1, ctx |-> 1, entity |-> Undefined]
         IN  /\ heap' = r.h
             /\ out' = RenderOut("render", name, m, ReadTree(heap, 1), ReadTree(h1, 1), r,
                                 IF template.t = "template" THEN "resolved" ELSE "rejected")
    /\ UNCHANGED <<location, pristine, importContext, views, registry, events>>

NextRender == TemplateRender \/ AdapterRender

SpecRender == InitRender /\ [][NextRender]_vars

-----------------------------------------------------------------------------
(* Properties of the renders *)

\* the own keys of a mapping that do not begin with '_', in order
OwnPublicKeys(obj) ==
    LET public == SelectSeq(obj, LAMBDA e : ~StartsWith(e.k, <<"_">>))
    IN  [i \in 1..Len(public) |-> public[i].k]

RECURSIVE PublicReach(_, _)
\* the mapping at r and every plain mapping reached from it through keys that
\* do not begin with '_'
PublicReach(h, r) ==
    {r} \cup UNION { PublicReach(h, h[r][i].v.ref) :
                       i \in {j \in 1..Len(h[r]) :
                                /\ IsPlainObject(h[r][j].v)
                                /\ ~StartsWith(h[r][j].k, <<"_">>)} }

\* whether the loader resolves the identity to view v
ResolvesTo(id, v) == Loader(views, id, Undefined) = Template(id, v.content)

\* the serialization of the variant that renders view v
ExpectedSelf(v) ==
    LET e == find(ReplacePrefix(v.handle))
    IN  Json(IF e.isVariant THEN e.name ELSE e.default)

\* C6: with pristine = false and importContext = true, a render of a template
\* instance whose identity is a handle or a location the loader resolves to a
\* view hands the original render a context whose _self is the serialization
\* of that view's variant (the default variant for a component).
C6_SelfIsRenderingComponent ==
    (/\ out.op \in {"templateRender", "render"}
     /\ out.settled # "rejected"
     /\ ~pristine /\ importContext) =>
        \A i \in 1..Len(views) :
            ResolvesTo(out.id, views[i]) =>
                Get(out.passed, SelfKey) = ExpectedSelf(views[i])

\* C7: after setKeys, _keys of the mapping and of every plain mapping reached
\* through non-private keys is the ordered list of its own keys that do not
\* begin with '_'; mappings under private keys are untouched; a second
\* setKeys changes no _keys list and visits the same mappings.
C7_KeysRegenerated ==
    out.op = "setKeys" =>
        /\ \A r \in PublicReach(heap, 1) :
              Get(heap[r], KeysKey) = List(OwnPublicKeys(heap[r]))
        /\ \A r \in (1..Len(heap)) \ PublicReach(out.first, 1) :
              heap[r] = out.first[r]
        /\ out.calls = 2 => (heap = out.prev /\ out.seen = out.prevSeen)

\* C8: the top-level render adds _self, _target, _env and _config only where
\* the key is absent and a value is supplied; a key already present keeps its
\* value, and in pristine mode the context is left as given.
C8_InjectOnlyIfAbsent ==
    out.op = "render" =>
        IF pristine THEN out.entry = out.given
        ELSE /\ SubSeq(out.entry, 1, Len(out.given)) = out.given
             /\ \A i \in 1..Len(out.entry) :
                   i > Len(out.given) => out.entry[i].k \in ReservedKeys
             /\ \A k \in ReservedKeys :
                   IF Has(out.given, k) THEN Get(out.entry, k) = Get(out.given, k)
                   ELSE IF Supplied(out.meta, k) = Undefined THEN ~Has(out.entry, k)
                   ELSE Get(out.entry, k) = Supplied(out.meta, k)

C8_Witness ==
    /\ out.op = "render"
    /\ ~pristine
    /\ Has(out.given, SelfKey)
    /\ out.meta.self # Undefined
    /\ out.meta.env = Undefined
    /\ Get(out.entry, SelfKey) = Get(out.given, SelfKey)
    /\ Get(out.entry, SelfKey) # out.meta.self
    /\ Get(out.entry, <<"_", "config">>) = AppConfig
    /\ ~Has(out.entry, <<"_", "env">>)

\* C9: the patched render leaves the caller's context mapping as it was at
\* the call; without a patch the original render receives that very mapping,
\* and with a patch it receives a copy that shares no mapping with it.
C9_CallerContextUntouched ==
    out.op \in {"templateRender", "render"} =>
        /\ ReadTree(heap, 1) = out.entry
        /\ (pristine \/ ~importContext \/ out.entity = "none") =>
              (out.same /\ out.passed = out.entry)
        /\ (~pristine /\ importContext /\ out.entity # "none") =>
              (~out.same /\ out.shared = {})

C9_Witness ==
    /\ out.op = "templateRender"
    /\ importContext /\ out.entity = "button--default"
    /\ Get(out.entry, <<"title">>).t = "literal"
    /\ Get(out.passed, <<"title">>).t = "literal"
    /\ Has(Get(out.passed, <<"title">>).entries, KeysKey)
    /\ ~Has(Get(out.entry, <<"title">>).entries, KeysKey)
    /\ Get(out.passed, SelfKey) = Json("button--default")
    /\ ReadTree(heap, 1) = out.entry

-----------------------------------------------------------------------------
(* Compilations and change events *)

\* the preview layout, a template outside the view collection
WrapperView ==
    View(<<"@", "preview">>, fullPath \o <<"/", "_preview.twig">>, Content("preview", 0))

\* locations of include statements
IncludeIds ==
    { <<"@", "button">>,
      <<"atoms", "/", "button", "/", "button.twig">>,
      <<"@", "button--primary">> }

\* names of entry-point templates compiled by the top-level render
EntryNames == { <<"_preview.twig">> }

EventNames == {"view:updated", "view:removed", "wrapper:updated", "wrapper:removed"}

Event(name, view) == [name |-> name, view |-> view]

\* an event carries the view or only its path
Payload(view, asPath) == IF asPath THEN Str(view.path) ELSE view

Init ==
    /\ views = InitialViews
    /\ registry = EmptyRegistry
    /\ events = <<>>
    /\ out = Idle
    /\ location = <<>>
    /\ QuietRender

\* an include: the evaluator obtains the template through the loader, and
\* new Twig.Template enters it in the registry under its id
Include ==
    /\ \E id \in IncludeIds :
         LET template == Loader(views, id, Undefined) IN
         /\ registry' = IF template.t = "template"
                        THEN Save(registry, id, template) ELSE registry
         /\ out' = [op |-> "load", result |-> template.t]
    /\ UNCHANGED <<location, pristine, importContext, heap, views, events>>

\* the top-level render compiles its entry-point template from the source
\* it was given
RenderEntry ==
    /\ \E name \in EntryNames :
         LET template == Loader(views, name, Str(<<"{{ yield }}">>)) IN
         /\ registry' = Save(registry, name, template)
         /\ out' = [op |-> "load", result |-> template.t]
    /\ UNCHANGED <<location, pristine, importContext, heap, views, events>>

\* the library re-reads a changed view and emits view:updated
ViewUpdated ==
    /\ Len(events) < MaxEvents
    /\ \E i \in 1..Len(views), asPath \in BOOLEAN :
         /\ views[i].content.rev < MaxRev
         /\ views' = [views EXCEPT ![i].content.rev = @ + 1]
         /\ events' = Append(events, Event("view:updated", Payload(views'[i], asPath)))
    /\ out' = Idle
    /\ UNCHANGED <<location, pristine, importContext, heap, registry>>

\* the library drops a view and emits view:removed
ViewRemoved ==
    /\ Len(events) < MaxEvents
    /\ \E i \in 1..Len(views), asPath \in BOOLEAN :
         /\ views' = SubSeq(views, 1, i - 1) \o SubSeq(views, i + 1, Len(views))
         /\ events' = Append(events, Event("view:removed", Payload(views[i], asPath)))
    /\ out' = Idle
    /\ UNCHANGED <<location, pristine, importContext, heap, registry>>

\* the library emits wrapper:updated or wrapper:removed for the preview layout
WrapperChanged ==
    /\ Len(events) < MaxEvents
    /\ \E name \in {"wrapper:updated", "wrapper:removed"}, asPath \in BOOLEAN :
         events' = Append(events, Event(name, Payload(WrapperView, asPath)))
    /\ out' = Idle
    /\ UNCHANGED <<location, pristine, importContext, heap, views, registry>>

\* what handling an event did to the registry
Handled(event, before, after) ==
    [op |-> "unCache", event |-> event, evicted |-> DOMAIN before \ DOMAIN after]

\* the oldest event is delivered to unCache
Deliver ==
    /\ events # <<>>
    /\ registry' = unCache(registry, Head(events).view)
    /\ events' = Tail(events)
    /\ out' = Handled(Head(events), registry, registry')
    /\ UNCHANGED <<location, pristine, importContext, heap, views>>

\* the event handled last is delivered once more
Redeliver ==
    /\ out.op = "unCache"
    /\ registry' = unCache(registry, out.event.view)
    /\ out' = Handled(out.event, registry, registry')
    /\ UNCHANGED <<location, pristine, importContext, heap, views, events>>

Next ==
    \/ Include
    \/ RenderEntry
    \/ ViewUpdated
    \/ ViewRemoved
    \/ WrapperChanged
    \/ Deliver
    \/ Redeliver

Spec == Init /\ [][Next]_vars

-----------------------------------------------------------------------------
(* Properties of the registry *)

\* the views an event can be about
KnownViews == {InitialViews[i] : i \in 1..Len(InitialViews)} \cup {WrapperView}

\* path and handle of the view an event is about
EventPath(event) == IF IsString(event.view) THEN event.view.s ELSE event.view.path

EventHandle(event) ==
    (CHOOSE v \in KnownViews : v.path = EventPath(event)).handle

\* the path key: the view's path relative to the library root
PathKey(event) == PathRelative(fullPath, EventPath(event))

\* C5: after a change event for a view with path P and handle H is handled,
\* whether it carries the view or only its path, the registry has no entry
\* under the path key and none under the handle key.
C5_BothKeysAbsent ==
    out.op = "unCache" =>
        /\ PathKey(out.event) \notin DOMAIN registry
        /\ EventHandle(out.event) \notin DOMAIN registry

\* C10: handling a change event removes nothing but the view's path-key and
\* handle-key entries and changes no other entry; when neither key is present
\* the registry is left as it was; and handling the same event again leaves
\* the registry as the first handling left it.
C10_OnlyOwnKeysEvicted ==
    [][ out'.op = "unCache" =>
          /\ DOMAIN registry' \subseteq DOMAIN registry
          /\ (DOMAIN registry \ DOMAIN registry')
                \subseteq {PathKey(out'.event), EventHandle(out'.event)}
          /\ \A k \in DOMAIN registry' : registry'[k] = registry[k]
          /\ ({PathKey(out'.event), EventHandle(out'.event)} \cap DOMAIN registry = {})
                => registry' = registry
          /\ unCache(registry', out'.event.view) = registry' ]_vars

C10_Witness ==
    /\ out.op = "unCache"
    /\ out.evicted = {<<"@", "button">>, <<"atoms", "/", "button", "/", "button.twig">>}
    /\ DOMAIN registry = {<<"@", "button--primary">>, <<"_preview.twig">>}

====
